---------------------------- MODULE Spec2Model ----------------------------
(***************************************************************************)
(* A model of visualize_with_rerun.py: the three COLMAP text parsers       *)
(* (parse_points3d, parse_cameras, parse_images), the camera position      *)
(* computation, and main's cluster discovery and event emission.           *)
(*                                                                         *)
(* Text is modelled at character level: a line is a sequence of            *)
(* one-character strings over the alphabet space, '#', digits and letters, *)
(* without its trailing newline (strip, split and startswith('#') do not   *)
(* depend on it).  A file is a sequence of lines.                          *)
(*                                                                         *)
(* Two specifications share the variables: Spec runs main over a file      *)
(* system, SpecParse runs one parser over one file, one loop iteration per *)
(* step.                                                                   *)
(***************************************************************************)
EXTENDS Integers, Sequences, FiniteSets, TLC

VARIABLES
    fs,             \* the results directory: cluster slot -> name of its content
    pc,             \* main: "discover", "loop", "done", or "raised" (ended by a ValueError)
    cluster_paths,  \* main's list cluster_paths (paths; the colours are never read)
    idx,            \* position of the for loop of line 156 in cluster_paths
    events,         \* the stream of rr.log calls after the "world" one
    loaded,         \* the clusters announced by the "Loading ..." print of line 164
    exists_log,     \* every <<cluster directory, file name>> handed to Path.exists()
    open_log,       \* every <<cluster directory, file name>> handed to open()
    p_kind,         \* SpecParse: the parser that runs, "points", "cameras", "images"
    p_lines,        \* SpecParse: the lines of the file
    p_i,            \* SpecParse: index of the next line the loop reads
    p_pc,           \* SpecParse: "run", "done" (returned) or "raised" (ValueError)
    points,         \* parse_points3d's list points
    colors,         \* parse_points3d's list colors
    cameras,        \* parse_cameras' dict cameras
    images          \* parse_images' list images

mainVars == <<fs, pc, cluster_paths, idx, events, loaded, exists_log, open_log>>
parseVars == <<p_kind, p_lines, p_i, p_pc, points, colors, cameras, images>>
vars == <<fs, pc, cluster_paths, idx, events, loaded, exists_log, open_log,
          p_kind, p_lines, p_i, p_pc, points, colors, cameras, images>>

-----------------------------------------------------------------------------
(* Bounds of the model *)

\* the longest file SpecParse hands to a parser, in lines
MaxLines == 4
\* the largest number of cluster directories that hold a points3D.txt
MaxDirs == 2

-----------------------------------------------------------------------------
(* Python's str and number primitives, on sequences of characters *)

Digits == <<"0", "1", "2", "3", "4", "5", "6", "7", "8", "9">>

IsSpace(c) == c = " "

IsDigit(c) == \E d \in 1..10 : Digits[d] = c

DigitVal(c) == (CHOOSE d \in 1..10 : Digits[d] = c) - 1

RECURSIVE lstrip(_)
lstrip(s) ==
    IF s # <<>> /\ IsSpace(Head(s)) THEN lstrip(Tail(s)) ELSE s

RECURSIVE rstrip(_)
rstrip(s) ==
    IF s # <<>> /\ IsSpace(s[Len(s)]) THEN rstrip(SubSeq(s, 1, Len(s) - 1)) ELSE s

strip(s) == rstrip(lstrip(s))

\* str.startswith with a one-character prefix
startswith(s, c) == Len(s) >= 1 /\ s[1] = c

\* the length of the first run of non-space characters of s
RECURSIVE WordLen(_)
WordLen(s) ==
    IF s = <<>> \/ IsSpace(Head(s)) THEN 0 ELSE 1 + WordLen(Tail(s))

\* str.split() without arguments: the maximal runs of non-space characters
RECURSIVE split(_)
split(s) ==
    LET t == lstrip(s)
        n == WordLen(t)
    IN  IF t = <<>> THEN <<>>
        ELSE <<SubSeq(t, 1, n)>> \o split(SubSeq(t, n + 1, Len(t)))

\* int(tok) and float(tok) succeed: over this alphabet, exactly on the
\* non-empty all-digit tokens (no sign, point or exponent is in the alphabet)
IsNumeric(tok) == tok # <<>> /\ \A k \in 1..Len(tok) : IsDigit(tok[k])

RECURSIVE NumVal(_)
NumVal(tok) ==
    IF Len(tok) = 1 THEN DigitVal(tok[1])
    ELSE 10 * NumVal(SubSeq(tok, 1, Len(tok) - 1)) + DigitVal(tok[Len(tok)])

\* np.array(..., dtype=np.uint8) on values that fit a byte
Uint8(v) == v % 256

-----------------------------------------------------------------------------
(* parse_points3d *)

\* PointsBody with the token threshold at 8 instead of 7
PointsBody_MinEight(st, line) ==
    IF startswith(line, "#") \/ strip(line) = <<>> THEN st
    ELSE LET parts == split(strip(line)) IN
         IF Len(parts) >= 8
         THEN IF \A k \in 2..7 : IsNumeric(parts[k])
              THEN [st EXCEPT
                      !.points = Append(@, <<NumVal(parts[2]), NumVal(parts[3]), NumVal(parts[4])>>),
                      !.colors = Append(@, <<NumVal(parts[5]), NumVal(parts[6]), NumVal(parts[7])>>)]
              ELSE [st EXCEPT !.raised = TRUE]
         ELSE st

\* one iteration of the for loop of lines 26-35 on `line`;
\* st = [points, colors, raised], raised when float() or int() fails
PointsBody(st, line) ==
    IF startswith(line, "#") \/ strip(line) = <<>> THEN st
    ELSE LET parts == split(strip(line)) IN
         IF Len(parts) >= 7
         THEN IF \A k \in 2..7 : IsNumeric(parts[k])
              THEN [st EXCEPT
                      !.points = Append(@, <<NumVal(parts[2]), NumVal(parts[3]), NumVal(parts[4])>>),
                      !.colors = Append(@, <<NumVal(parts[5]), NumVal(parts[6]), NumVal(parts[7])>>)]
              ELSE [st EXCEPT !.raised = TRUE]
         ELSE st

\* the colours as returned: np.array(colors, dtype=np.uint8)
ColorsArray(cs) == [k \in 1..Len(cs) |-> <<Uint8(cs[k][1]), Uint8(cs[k][2]), Uint8(cs[k][3])>>]

RECURSIVE PointsLoop(_, _, _)
PointsLoop(st, lines, k) ==
    IF st.raised \/ k > Len(lines) THEN st
    ELSE PointsLoop(PointsBody(st, lines[k]), lines, k + 1)

\* parse_points3d(filepath) on the lines of the file
parse_points3d(lines) ==
    LET st == PointsLoop([points |-> <<>>, colors |-> <<>>, raised |-> FALSE], lines, 1)
    IN  [st EXCEPT !.colors = ColorsArray(@)]

-----------------------------------------------------------------------------
(* parse_cameras *)

\* one iteration of the for loop of lines 44-60; st = [cameras, raised]
CamerasBody(st, line) ==
    IF startswith(line, "#") \/ strip(line) = <<>> THEN st
    ELSE LET parts == split(strip(line)) IN
         IF Len(parts) >= 5
         THEN IF IsNumeric(parts[1]) /\ IsNumeric(parts[3]) /\ IsNumeric(parts[4])
                 /\ \A k \in 5..Len(parts) : IsNumeric(parts[k])
              THEN [st EXCEPT !.cameras =
                      (NumVal(parts[1]) :>
                          [model  |-> parts[2],
                           width  |-> NumVal(parts[3]),
                           height |-> NumVal(parts[4]),
                           params |-> [k \in 1..(Len(parts) - 4) |-> NumVal(parts[k + 4])]])
                      @@ @]
              ELSE [st EXCEPT !.raised = TRUE]
         ELSE st

RECURSIVE CamerasLoop(_, _, _)
CamerasLoop(st, lines, k) ==
    IF st.raised \/ k > Len(lines) THEN st
    ELSE CamerasLoop(CamerasBody(st, lines[k]), lines, k + 1)

\* parse_cameras(filepath) on the lines of the file
parse_cameras(lines) == CamerasLoop([cameras |-> <<>>, raised |-> FALSE], lines, 1)

-----------------------------------------------------------------------------
(* parse_images *)

\* the record of lines 87-93 for the tokens of a pose line
ImageRecord(parts) ==
    [id          |-> NumVal(parts[1]),
     quat        |-> <<NumVal(parts[3]), NumVal(parts[4]), NumVal(parts[5]), NumVal(parts[2])>>,
     translation |-> <<NumVal(parts[6]), NumVal(parts[7]), NumVal(parts[8])>>,
     camera_id   |-> NumVal(parts[9]),
     name        |-> parts[10]]

\* SkipNext that discards the next line only after an accepted pose line
SkipNext_OnlyAfterPose(lines, i, accepted) ==
    IF accepted /\ i + 1 <= Len(lines) /\ ~startswith(lines[i + 1], "#")
    THEN i + 2 ELSE i + 1

\* SkipNext that never discards a line
SkipNext_Never(lines, i, accepted) == i + 1

\* SkipNext that keeps a next line of at least 10 tokens
SkipNext_UnlessPose(lines, i, accepted) ==
    IF i + 1 <= Len(lines) /\ ~startswith(lines[i + 1], "#")
       /\ Len(split(strip(lines[i + 1]))) < 10
    THEN i + 2 ELSE i + 1

\* the cursor after the content line at i (lines 95-98): one past it, and one
\* more when a next line exists and does not start with '#'; `accepted` tells
\* whether the line at i had at least 10 tokens, which the code does not read
SkipNext(lines, i, accepted) ==
    IF i + 1 <= Len(lines) /\ ~startswith(lines[i + 1], "#")
    THEN i + 2 ELSE i + 1

\* one iteration of the while loop of lines 72-98; st = [i, images, raised]
ImagesBody(st, lines) ==
    LET line == strip(lines[st.i]) IN
    IF startswith(line, "#") \/ line = <<>> THEN [st EXCEPT !.i = @ + 1]
    ELSE LET parts == split(line) IN
         IF Len(parts) >= 10
         THEN IF \A k \in 1..9 : IsNumeric(parts[k])
              THEN [st EXCEPT !.images = Append(@, ImageRecord(parts)),
                              !.i = SkipNext(lines, st.i, TRUE)]
              ELSE [st EXCEPT !.raised = TRUE]
         ELSE [st EXCEPT !.i = SkipNext(lines, st.i, FALSE)]

RECURSIVE ImagesLoop(_, _)
ImagesLoop(st, lines) ==
    IF st.raised \/ ~(st.i <= Len(lines)) THEN st
    ELSE ImagesLoop(ImagesBody(st, lines), lines)

\* parse_images(filepath) on the lines of the file
parse_images(lines) == ImagesLoop([i |-> 1, images |-> <<>>, raised |-> FALSE], lines)

-----------------------------------------------------------------------------
(* The files the parsers are run on *)

\* the decimal numeral of n < 100 as a token
NatTok(n) == IF n < 10 THEN <<Digits[n + 1]>> ELSE <<Digits[(n \div 10) + 1], Digits[(n % 10) + 1]>>

\* the tokens joined by single spaces
RECURSIVE Sp(_)
Sp(toks) ==
    IF toks = <<>> THEN <<>>
    ELSE IF Len(toks) = 1 THEN toks[1]
    ELSE toks[1] \o <<" ">> \o Sp(Tail(toks))

Nums(ns) == [k \in 1..Len(ns) |-> NatTok(ns[k])]

Indent(line) == <<" ">> \o line

L_Blank    == <<>>
L_Space    == <<" ">>
L_Hash     == Sp(<<<<"#">>>> \o Nums(<<1, 2, 3, 4, 5, 6>>))
L_IndHash  == Indent(L_Hash)
L_IndHashX == Indent(Sp(<<<<"#">>, <<"P">>, <<"8">>, <<"6">>, <<"5">>>>))

\* points3D.txt lines: ID X Y Z R G B ERROR
L_Pt1      == Sp(Nums(<<1, 1, 2, 3, 40, 50, 60, 0>>))
L_Pt2      == Indent(Sp(Nums(<<2, 7, 8, 9, 10, 11, 12>>)))
L_PtShort  == Sp(Nums(<<9, 9, 9>>))
L_PtBad    == Sp(<<<<"3">>, <<"a">>>> \o Nums(<<2, 3, 4, 5, 6>>))

\* cameras.txt lines: ID MODEL WIDTH HEIGHT PARAMS
L_Cam1     == Sp(<<<<"1">>, <<"P">>>> \o Nums(<<8, 6, 5, 4>>))
L_Cam1b    == Sp(<<<<"1">>, <<"Q">>>> \o Nums(<<9, 9, 1>>))
L_Cam2     == Indent(Sp(<<<<"2">>, <<"P">>>> \o Nums(<<8, 6, 5>>)))
L_CamShort == Sp(<<<<"3">>, <<"P">>>> \o Nums(<<8, 6>>))
L_CamBad   == Sp(<<<<"4">>, <<"P">>, <<"x">>>> \o Nums(<<6, 5>>))

\* images.txt lines: ID QW QX QY QZ TX TY TZ CAMERA_ID NAME, then the 2D points
L_PoseA    == Sp(Nums(<<1, 1, 0, 0, 0, 1, 2, 3, 1>>) \o <<<<"a">>>>)
L_PoseB    == Indent(Sp(Nums(<<2, 0, 1, 0, 0, 4, 5, 6, 1>>) \o <<<<"b">>, <<"x">>>>))
L_PoseA2   == Sp(Nums(<<3, 0, 0, 1, 0, 7, 8, 9, 1>>) \o <<<<"a">>>>)
L_PoseBad  == Sp(<<<<"x">>>> \o Nums(<<1, 0, 0, 0, 1, 2, 3, 1>>) \o <<<<"c">>>>)
L_Obs      == Sp(Nums(<<5, 6, 7>>))
L_ObsLong  == Sp(Nums(<<5, 6, 1, 7, 8, 2, 9, 9, 3, 4, 4, 5>>))

PointsPool  == {L_Blank, L_Space, L_Hash, L_IndHash, L_Pt1, L_Pt2, L_PtShort, L_PtBad}
CamerasPool == {L_Blank, L_Hash, L_IndHashX, L_Cam1, L_Cam1b, L_Cam2, L_CamShort, L_CamBad}
ImagesPool  == {L_Blank, L_Hash, L_IndHash, L_PoseA, L_PoseB, L_PoseBad, L_Obs, L_ObsLong}

\* the sequences over S of length at most n
RECURSIVE SeqsUpTo(_, _)
SeqsUpTo(S, n) ==
    IF n = 0 THEN {<<>>}
    ELSE LET R == SeqsUpTo(S, n - 1) IN R \cup {Append(r, x) : r \in R, x \in S}

PoolOf(kind) ==
    CASE kind = "points"  -> PointsPool
      [] kind = "cameras" -> CamerasPool
      [] kind = "images"  -> ImagesPool

-----------------------------------------------------------------------------
(* SpecParse: one parser on one file, one loop iteration per step *)

ParseIdle ==
    /\ p_kind = "none" /\ p_lines = <<>> /\ p_i = 1 /\ p_pc = "done"
    /\ points = <<>> /\ colors = <<>> /\ cameras = <<>> /\ images = <<>>

MainIdle ==
    /\ fs = <<>> /\ pc = "done" /\ cluster_paths = <<>> /\ idx = 1
    /\ events = <<>> /\ loaded = <<>> /\ exists_log = {} /\ open_log = {}

InitParse ==
    /\ MainIdle
    /\ p_kind \in {"points", "cameras", "images"}
    /\ p_lines \in SeqsUpTo(PoolOf(p_kind), MaxLines)
    /\ p_i = 1
    /\ p_pc = "run"
    /\ points = <<>> /\ colors = <<>> /\ cameras = <<>> /\ images = <<>>

\* parse_points3d, lines 26-35: the loop reads line p_i
PointsStep ==
    /\ p_kind = "points" /\ p_pc = "run" /\ p_i <= Len(p_lines)
    /\ LET st == PointsBody([points |-> points, colors |-> colors, raised |-> FALSE],
                            p_lines[p_i])
       IN  /\ points' = st.points
           /\ colors' = st.colors
           /\ p_pc' = IF st.raised THEN "raised" ELSE "run"
           /\ p_i' = IF st.raised THEN p_i ELSE p_i + 1
    /\ UNCHANGED <<p_kind, p_lines, cameras, images>>
    /\ UNCHANGED mainVars

\* parse_points3d, line 37: the file is exhausted, the arrays are returned
PointsReturn ==
    /\ p_kind = "points" /\ p_pc = "run" /\ p_i > Len(p_lines)
    /\ colors' = ColorsArray(colors)
    /\ p_pc' = "done"
    /\ UNCHANGED <<p_kind, p_lines, p_i, points, cameras, images>>
    /\ UNCHANGED mainVars

\* parse_cameras, lines 44-60
CamerasStep ==
    /\ p_kind = "cameras" /\ p_pc = "run" /\ p_i <= Len(p_lines)
    /\ LET st == CamerasBody([cameras |-> cameras, raised |-> FALSE], p_lines[p_i])
       IN  /\ cameras' = st.cameras
           /\ p_pc' = IF st.raised THEN "raised" ELSE "run"
           /\ p_i' = IF st.raised THEN p_i ELSE p_i + 1
    /\ UNCHANGED <<p_kind, p_lines, points, colors, images>>
    /\ UNCHANGED mainVars

\* parse_cameras, line 62
CamerasReturn ==
    /\ p_kind = "cameras" /\ p_pc = "run" /\ p_i > Len(p_lines)
    /\ p_pc' = "done"
    /\ UNCHANGED <<p_kind, p_lines, p_i, points, colors, cameras, images>>
    /\ UNCHANGED mainVars

\* parse_images, lines 72-98: the while loop runs once with i = p_i
ImagesStep ==
    /\ p_kind = "images" /\ p_pc = "run" /\ p_i <= Len(p_lines)
    /\ LET st == ImagesBody([i |-> p_i, images |-> images, raised |-> FALSE], p_lines)
       IN  /\ images' = st.images
           /\ p_pc' = IF st.raised THEN "raised" ELSE "run"
           /\ p_i' = st.i
    /\ UNCHANGED <<p_kind, p_lines, points, colors, cameras>>
    /\ UNCHANGED mainVars

\* parse_images, line 100
ImagesReturn ==
    /\ p_kind = "images" /\ p_pc = "run" /\ ~(p_i <= Len(p_lines))
    /\ p_pc' = "done"
    /\ UNCHANGED <<p_kind, p_lines, p_i, points, colors, cameras, images>>
    /\ UNCHANGED mainVars

NextParse ==
    \/ PointsStep
    \/ PointsReturn
    \/ CamerasStep
    \/ CamerasReturn
    \/ ImagesStep
    \/ ImagesReturn

SpecParse == InitParse /\ [][NextParse]_vars

-----------------------------------------------------------------------------
(* PoseResolver: quaternion_to_rotation_matrix and get_camera_position *)

\* lines 102-110, q = [x, y, z, w]
quaternion_to_rotation_matrix(q) ==
    LET x == q[1]
        y == q[2]
        z == q[3]
        w == q[4]
    IN  << <<1 - 2*y*y - 2*z*z, 2*x*y - 2*z*w,     2*x*z + 2*y*w>>,
           <<2*x*y + 2*z*w,     1 - 2*x*x - 2*z*z, 2*y*z - 2*x*w>>,
           <<2*x*z - 2*y*w,     2*y*z + 2*x*w,     1 - 2*x*x - 2*y*y>> >>

\* lines 112-118: cam_pos = -R.T @ t
get_camera_position(image) ==
    LET R == quaternion_to_rotation_matrix(image.quat)
        t == image.translation
    IN  [c \in 1..3 |-> 0 - (R[1][c] * t[1] + R[2][c] * t[2] + R[3][c] * t[3])]

-----------------------------------------------------------------------------
(* The results directory *)

\* range(1, 5) of lines 142-143 and the four C_<i> entries of lines 135-138
Fanout == 4

\* the 21 candidate clusters: <<0, 0>> is the merged result, <<i, 0>> is C_<i>,
\* <<i, j>> is the leaf C_<i>/C_<i>_<j>
Slots == {<<0, 0>>} \cup {<<i, j>> : i \in 1..Fanout, j \in 0..Fanout}

BaOutput == <<"b", "a", "_", "o", "u", "t", "p", "u", "t">>

\* "C_<i>/ba_output", lines 135-138
FirstLevelPath(i) == <<"C", "_", Digits[i + 1], "/">> \o BaOutput

\* f"C_{i}/C_{i}_{j}/ba_output", line 144
LeafPath(i, j) ==
    <<"C", "_", Digits[i + 1], "/", "C", "_", Digits[i + 1], "_", Digits[j + 1], "/">>
        \o BaOutput

\* the path of each candidate cluster below results/
PathOf ==
    [s \in Slots |->
        IF s = <<0, 0>> THEN BaOutput
        ELSE IF s[2] = 0 THEN FirstLevelPath(s[1])
        ELSE LeafPath(s[1], s[2])]

File(lines) == [exists |-> TRUE, lines |-> lines]
NoFile == [exists |-> FALSE, lines |-> <<>>]

PtsOk    == <<L_Hash, L_Pt1, L_PtShort, L_Pt2>>
PtsEmpty == <<L_Hash, L_PtShort>>
PtsBad   == <<L_Pt1, L_PtBad>>
CamOk    == <<L_Hash, L_Cam1, L_Cam2>>
ImgOk    == <<L_Hash, L_PoseA, L_Obs, L_PoseB, L_ObsLong>>
ImgDup   == <<L_PoseA, L_Obs, L_PoseA2, L_Obs>>
ImgBad   == <<L_PoseA, L_Obs, L_PoseBad, L_Obs>>

\* the contents of a cluster directory that holds a points file; every other
\* directory is "nopoints": cameras.txt and images.txt without a points3D.txt
DirNames == {"full", "empty", "dup", "badpts", "badimg"}

\* the three files of each directory content
DirOf ==
    [name \in DirNames \cup {"nopoints"} |->
        CASE name = "full"     -> [points3D |-> File(PtsOk),    cameras |-> File(CamOk), images |-> File(ImgOk)]
          [] name = "empty"    -> [points3D |-> File(PtsEmpty), cameras |-> NoFile,      images |-> File(ImgOk)]
          [] name = "dup"      -> [points3D |-> File(PtsOk),    cameras |-> File(CamOk), images |-> File(ImgDup)]
          [] name = "badpts"   -> [points3D |-> File(PtsBad),   cameras |-> File(CamOk), images |-> File(ImgOk)]
          [] name = "badimg"   -> [points3D |-> File(PtsOk),    cameras |-> File(CamOk), images |-> File(ImgBad)]
          [] name = "nopoints" -> [points3D |-> NoFile,         cameras |-> File(CamOk), images |-> File(ImgOk)]]

\* the cluster directory each candidate path names
SlotOfPath ==
    [p \in {PathOf[s] : s \in Slots} |-> CHOOSE s \in Slots : PathOf[s] = p]

\* the directory base_path / path
SlotAt(path) == SlotOfPath[path]

\* the file base_path / path / fname
FileAt(path, fname) ==
    LET d == DirOf[fs[SlotAt(path)]]
    IN  CASE fname = "points3D.txt" -> d.points3D
          [] fname = "cameras.txt"  -> d.cameras
          [] fname = "images.txt"   -> d.images

\* what the three parsers return on the files of each directory content
\* (the parsers are functions of the file's lines alone)
Parsed ==
    [n \in DirNames \cup {"nopoints"} |->
        [points3D |-> parse_points3d(DirOf[n].points3D.lines),
         cameras  |-> parse_cameras(DirOf[n].cameras.lines),
         images   |-> parse_images(DirOf[n].images.lines)]]

\* Path.exists()
Exists(path, fname) == FileAt(path, fname).exists

\* the subsets of S with at most n elements
RECURSIVE SubsetsUpTo(_, _)
SubsetsUpTo(S, n) ==
    IF n = 0 THEN {{}}
    ELSE LET R == SubsetsUpTo(S, n - 1) IN R \cup {r \cup {x} : r \in R, x \in S}

-----------------------------------------------------------------------------
(* main *)

\* str.replace(a, b) with one-character a and b
Replace(s, a, b) == [k \in 1..Len(s) |-> IF s[k] = a THEN b ELSE s[k]]

\* f"clusters/{cluster_path.replace('/', '_')}/points", line 172
ClusterPointsPath(cp) ==
    <<"c", "l", "u", "s", "t", "e", "r", "s", "/">> \o Replace(cp, "/", "_") \o <<"/", "p", "o", "i", "n", "t", "s">>

\* CameraPath without the cluster key: f"clusters/cameras/{img['name']}"
CameraPath_NoCluster(cp, name) ==
    <<"c", "l", "u", "s", "t", "e", "r", "s", "/">> \o Tail(<<"/", "c", "a", "m", "e", "r", "a", "s", "/">>) \o name

\* f"clusters/{cluster_path.replace('/', '_')}/cameras/{img['name']}", line 191
CameraPath(cp, name) ==
    <<"c", "l", "u", "s", "t", "e", "r", "s", "/">> \o Replace(cp, "/", "_") \o <<"/", "c", "a", "m", "e", "r", "a", "s", "/">> \o name

\* "final_reconstruction/points", line 206
FinalPath == <<"f", "i", "n", "a", "l", "_", "r", "e", "c", "o", "n", "s", "t", "r", "u", "c", "t", "i", "o", "n", "/", "p", "o", "i", "n", "t", "s">>

\* the radii of lines 176, 195 and 210, in thousandths
RadiusCluster == 50
RadiusCamera == 30
RadiusFinal == 15

\* the cluster paths of lines 133-139
FixedPaths ==
    <<BaOutput, FirstLevelPath(1), FirstLevelPath(2), FirstLevelPath(3), FirstLevelPath(4)>>

\* LeafOrder with the two loops exchanged, j outer and i inner
LeafOrder_JOuter ==
    [k \in 1..(Fanout * Fanout) |-> <<((k - 1) % Fanout) + 1, ((k - 1) \div Fanout) + 1>>]

\* the <<i, j>> in the order the nested for loops of lines 142-143 visit them
LeafOrder ==
    [k \in 1..(Fanout * Fanout) |-> <<((k - 1) \div Fanout) + 1, ((k - 1) % Fanout) + 1>>]

Init ==
    /\ ParseIdle
    /\ \E D \in SubsetsUpTo(Slots, MaxDirs) :
         \E f \in [D -> DirNames] :
            fs = [s \in Slots |-> IF s \in D THEN f[s] ELSE "nopoints"]
    /\ pc = "discover"
    /\ cluster_paths = FixedPaths
    /\ idx = 1
    /\ events = <<>>
    /\ loaded = <<>>
    /\ exists_log = {}
    /\ open_log = {}

\* lines 142-151: the leaf clusters whose points file exists are appended
Discover ==
    /\ pc = "discover"
    /\ LET all == [k \in 1..Len(LeafOrder) |-> LeafPath(LeafOrder[k][1], LeafOrder[k][2])]
           found == SelectSeq(all, LAMBDA p : Exists(p, "points3D.txt"))
       IN  /\ cluster_paths' = cluster_paths \o found
           /\ exists_log' = exists_log \cup {<<SlotAt(all[k]), "points3D.txt">> : k \in 1..Len(all)}
    /\ pc' = "loop"
    /\ UNCHANGED <<fs, idx, events, loaded, open_log>>
    /\ UNCHANGED parseVars

\* the rr.log call of lines 171-178
ClusterPointsEvent(cp, pts) ==
    [path |-> ClusterPointsPath(cp), positions |-> pts.points, colors |-> pts.colors,
     radii |-> RadiusCluster, site |-> "cluster_points", cluster |-> cp, image |-> <<>>]

\* the rr.log call of lines 190-197 for one image
CameraEvent(cp, img) ==
    [path |-> CameraPath(cp, img.name), positions |-> <<get_camera_position(img)>>,
     colors |-> << <<0, 255, 255>> >>, radii |-> RadiusCamera,
     site |-> "camera", cluster |-> cp, image |-> img.name]

\* the rr.log call of lines 205-212
FinalEvent(pts) ==
    [path |-> FinalPath, positions |-> pts.points, colors |-> pts.colors,
     radii |-> RadiusFinal, site |-> "final", cluster |-> <<>>, image |-> <<>>]

\* not points_file.exists(), line 161, negated
HasPoints(cp) == Exists(cp, "points3D.txt")

\* one iteration of the for loop of lines 156-199 on cluster_paths[idx]
ProcessCluster ==
    /\ pc = "loop" /\ idx <= Len(cluster_paths)
    /\ LET cp == cluster_paths[idx]
           dir == SlotAt(cp)
           pts == Parsed[fs[dir]].points3D
           ptsEvents == IF Len(pts.points) > 0 THEN <<ClusterPointsEvent(cp, pts)>> ELSE <<>>
           hasCam == Exists(cp, "cameras.txt")
           both == hasCam /\ Exists(cp, "images.txt")
           cams == Parsed[fs[dir]].cameras
           imgs == Parsed[fs[dir]].images
           probes == {<<dir, "points3D.txt">>, <<dir, "cameras.txt">>}
                         \cup (IF hasCam THEN {<<dir, "images.txt">>} ELSE {})
       IN  IF ~HasPoints(cp)
           THEN \* continue, line 162
                /\ idx' = idx + 1
                /\ exists_log' = exists_log \cup {<<dir, "points3D.txt">>}
                /\ UNCHANGED <<pc, events, loaded, open_log>>
           ELSE IF pts.raised
           THEN \* parse_points3d raises, line 167
                /\ pc' = "raised"
                /\ loaded' = Append(loaded, cp)
                /\ exists_log' = exists_log \cup {<<dir, "points3D.txt">>}
                /\ open_log' = open_log \cup {<<dir, "points3D.txt">>}
                /\ UNCHANGED <<idx, events>>
           ELSE IF ~both
           THEN \* line 182 is false
                /\ idx' = idx + 1
                /\ loaded' = Append(loaded, cp)
                /\ events' = events \o ptsEvents
                /\ exists_log' = exists_log \cup probes
                /\ open_log' = open_log \cup {<<dir, "points3D.txt">>}
                /\ UNCHANGED pc
           ELSE IF cams.raised
           THEN \* parse_cameras raises, line 183
                /\ pc' = "raised"
                /\ loaded' = Append(loaded, cp)
                /\ events' = events \o ptsEvents
                /\ exists_log' = exists_log \cup probes
                /\ open_log' = open_log \cup {<<dir, "points3D.txt">>, <<dir, "cameras.txt">>}
                /\ UNCHANGED idx
           ELSE IF imgs.raised
           THEN \* parse_images raises, line 184
                /\ pc' = "raised"
                /\ loaded' = Append(loaded, cp)
                /\ events' = events \o ptsEvents
                /\ exists_log' = exists_log \cup probes
                /\ open_log' = open_log \cup
                       {<<dir, "points3D.txt">>, <<dir, "cameras.txt">>, <<dir, "images.txt">>}
                /\ UNCHANGED idx
           ELSE \* lines 186-199
                /\ idx' = idx + 1
                /\ loaded' = Append(loaded, cp)
                /\ events' = events \o ptsEvents
                       \o [k \in 1..Len(imgs.images) |-> CameraEvent(cp, imgs.images[k])]
                /\ exists_log' = exists_log \cup probes
                /\ open_log' = open_log \cup
                       {<<dir, "points3D.txt">>, <<dir, "cameras.txt">>, <<dir, "images.txt">>}
                /\ UNCHANGED pc
    /\ UNCHANGED <<fs, cluster_paths>>
    /\ UNCHANGED parseVars

\* Final placed before the loop: the merged cloud is logged first
Final_BeforeLoop ==
    /\ pc = "loop" /\ idx = 1 /\ events = <<>>
    /\ Exists(BaOutput, "points3D.txt")
    /\ ~Parsed[fs[SlotAt(BaOutput)]].points3D.raised
    /\ events' = <<FinalEvent(Parsed[fs[SlotAt(BaOutput)]].points3D)>>
    /\ UNCHANGED <<fs, pc, cluster_paths, idx, loaded, exists_log, open_log>>
    /\ UNCHANGED parseVars

\* lines 202-213, after the loop: the merged cloud is parsed again and logged
Final ==
    /\ pc = "loop" /\ idx > Len(cluster_paths)
    /\ LET pts == Parsed[fs[SlotAt(BaOutput)]].points3D
       IN  IF ~Exists(BaOutput, "points3D.txt")
           THEN /\ pc' = "done"
                /\ UNCHANGED <<events, open_log>>
           ELSE IF pts.raised
           THEN /\ pc' = "raised"
                /\ open_log' = open_log \cup {<<SlotAt(BaOutput), "points3D.txt">>}
                /\ UNCHANGED events
           ELSE /\ pc' = "done"
                /\ events' = Append(events, FinalEvent(pts))
                /\ open_log' = open_log \cup {<<SlotAt(BaOutput), "points3D.txt">>}
    /\ exists_log' = exists_log \cup {<<SlotAt(BaOutput), "points3D.txt">>}
    /\ UNCHANGED <<fs, cluster_paths, idx, loaded>>
    /\ UNCHANGED parseVars

Next ==
    \/ Discover
    \/ ProcessCluster
    \/ Final

Spec == Init /\ [][Next]_vars

-----------------------------------------------------------------------------
(* Vocabulary of the properties *)

\* the clusters whose points3D.txt exists
Present == {s \in Slots : DirOf[fs[s]].points3D.exists}

\* the place of a cluster in the documented order: the merged result, then
\* C_1..C_4, then the leaves with i outer and j inner
Rank(s) ==
    IF s = <<0, 0>> THEN 0
    ELSE IF s[2] = 0 THEN s[1]
    ELSE Fanout + (s[1] - 1) * Fanout + s[2]

LoadedSlots == {SlotAt(loaded[k]) : k \in 1..Len(loaded)}

\* a cluster one of whose files that main parses holds a token that does not convert
Corrupt(s) ==
    /\ s \in Present
    /\ \/ Parsed[fs[s]].points3D.raised
       \/ /\ DirOf[fs[s]].cameras.exists
          /\ DirOf[fs[s]].images.exists
          /\ (Parsed[fs[s]].cameras.raised \/ Parsed[fs[s]].images.raised)

\* the indices of the events the rr.log call `site` emitted for cluster path cp
EventsOf(site, cp) ==
    {k \in 1..Len(events) : events[k].site = site /\ events[k].cluster = cp}

\* a blank line, or a line whose first non-space character is '#'
SkippableLine(line) == strip(line) = <<>> \/ startswith(lstrip(line), "#")

\* a pose line: at least 10 tokens, the nine numeric columns numeric
ValidPose(line) ==
    LET parts == split(line)
    IN  Len(parts) >= 10 /\ \A k \in 1..9 : IsNumeric(parts[k])

-----------------------------------------------------------------------------
(* The claims *)

\* C1 (as claimed): when exactly one present cluster is corrupt, the run does
\* not terminate with the exception, every other present cluster is loaded and
\* the final_reconstruction/points event is emitted when the merged cloud is
\* present and parses.
C1_CorruptClusterIsolated ==
    (Cardinality({s \in Slots : Corrupt(s)}) = 1) =>
        /\ pc # "raised"
        /\ pc = "done" =>
              /\ \A s \in Present : ~Corrupt(s) => s \in LoadedSlots
              /\ (<<0, 0>> \in Present /\ ~Corrupt(<<0, 0>>)) =>
                     \E k \in 1..Len(events) : events[k].path = FinalPath

\* C2 (as claimed): a file made only of blank lines and of lines whose first
\* non-space character is '#' makes no parser raise and yields no record.
C2_CommentLinesSkipped ==
    (\A k \in 1..Len(p_lines) : SkippableLine(p_lines[k])) =>
        /\ p_pc # "raised"
        /\ points = <<>>
        /\ colors = <<>>
        /\ DOMAIN cameras = {}
        /\ images = <<>>

C4_OnePointsEventPerCluster ==
    pc = "done" =>
        \A s \in Present : Cardinality(EventsOf("cluster_points", PathOf[s])) = 1

\* C5: once discovery is done, the clusters of cluster_paths whose points
\* file exists are exactly the present ones among the 21 candidates, in the
\* fixed order (merged, C_1..C_4, leaves with i outer and j inner); the loop
\* loads them in that order without gaps, all of them when the run completes;
\* for a cluster without a points file no file is opened, cameras.txt and
\* images.txt are never probed, and no event is emitted.
C5_ExactlyPresentInOrder ==
    LET present == Present
        sel == SelectSeq(cluster_paths, LAMBDA q : DirOf[fs[SlotAt(q)]].points3D.exists)
    IN  /\ pc # "discover" =>
              /\ {SlotAt(sel[k]) : k \in 1..Len(sel)} = present
              /\ \A k \in 1..(Len(sel) - 1) :
                    Rank(SlotAt(sel[k])) < Rank(SlotAt(sel[k + 1]))
              /\ Len(loaded) <= Len(sel)
              /\ loaded = SubSeq(sel, 1, Len(loaded))
        /\ pc = "discover" => loaded = <<>>
        /\ pc = "done" => loaded = sel
        /\ \A o \in open_log : o[1] \in present
        /\ \A e \in exists_log : e[2] # "points3D.txt" => e[1] \in present
        /\ \A k \in 1..Len(events) :
              events[k].site # "final" => SlotAt(events[k].cluster) \in present

\* a completed run over a sparse tree: a leaf and C_2 were loaded, and the
\* merged directory, with cameras.txt and images.txt but no points3D.txt, was
\* passed over
C5_Witness ==
    /\ pc = "done"
    /\ <<0, 0>> \notin Present /\ DirOf[fs[<<0, 0>>]].cameras.exists
    /\ <<2, 0>> \in LoadedSlots
    /\ \E k \in 1..Len(loaded) : SlotAt(loaded[k])[2] # 0
    /\ events # <<>>

\* C6: in every run the final_reconstruction/points event, once emitted, is
\* the last event of the stream and comes from the rr.log call after the loop
\* (so it is emitted at most once and after every per-cluster event); a
\* completed run ends with it when the merged points file exists and holds
\* no such event otherwise.
C6_FinalEventLast ==
    /\ \A k \in 1..Len(events) :
          (events[k].path = FinalPath \/ events[k].site = "final") =>
              /\ k = Len(events)
              /\ pc = "done"
              /\ events[k].site = "final"
    /\ (pc = "done" /\ <<0, 0>> \in Present) =>
          /\ events # <<>>
          /\ events[Len(events)].path = FinalPath
    /\ (pc = "done" /\ <<0, 0>> \notin Present) =>
          \A k \in 1..Len(events) : events[k].path # FinalPath

\* a completed run with cluster points events and camera events before the final one
C6_Witness ==
    /\ pc = "done"
    /\ Len(events) >= 4
    /\ events[Len(events)].path = FinalPath
    /\ \E k \in 1..Len(events) : events[k].site = "camera"
    /\ \E k \in 1..Len(events) : events[k].site = "cluster_points"

\* the file is k pose lines, each followed by a line that is not a comment
PairedFile(lines) ==
    /\ Len(lines) % 2 = 0
    /\ \A k \in 1..Len(lines) :
          IF k % 2 = 1 THEN ValidPose(lines[k])
          ELSE ~startswith(lstrip(lines[k]), "#")

\* C7: on a file of k valid pose lines, each followed by one non-comment
\* line, parse_images does not raise and returns exactly k records, the k-th
\* from the k-th pose line.
C7_PairedFileOneRecordPerPose ==
    (p_kind = "images" /\ PairedFile(p_lines)) =>
        /\ p_pc # "raised"
        /\ p_pc = "done" =>
              /\ Len(images) * 2 = Len(p_lines)
              /\ \A k \in 1..Len(images) :
                    /\ images[k].name = split(p_lines[2 * k - 1])[10]
                    /\ images[k].id = NumVal(split(p_lines[2 * k - 1])[1])

\* two poses, the first followed by an observation line of twelve numbers
C7_Witness ==
    /\ p_kind = "images" /\ p_pc = "done"
    /\ PairedFile(p_lines)
    /\ Len(p_lines) = 4
    /\ p_lines[2] = L_ObsLong
    /\ Len(images) = 2

\* a line parse_points3d takes a point from: it does not start with '#', is
\* not blank and has at least 7 tokens
AcceptedPointLine(line) ==
    /\ ~startswith(line, "#")
    /\ strip(line) # <<>>
    /\ Len(split(line)) >= 7

\* C8: the positions and colours have the same length; while parse_points3d
\* has not raised, entry k of both comes from the k-th line read so far that
\* has at least 7 tokens (and is no comment or blank line), in file order, and
\* the lines with fewer tokens contribute nothing; the parser raises only on
\* a line with at least 7 tokens.
C8_PointsAlignedWithAcceptedLines ==
    p_kind = "points" =>
        /\ Len(points) = Len(colors)
        /\ p_pc = "raised" => AcceptedPointLine(p_lines[p_i])
        /\ LET read == SubSeq(p_lines, 1, p_i - 1)
               acc == SelectSeq(read, AcceptedPointLine)
           IN  /\ Len(points) = Len(acc)
               /\ \A k \in 1..Len(acc) :
                     LET parts == split(acc[k])
                     IN  /\ points[k] = <<NumVal(parts[2]), NumVal(parts[3]), NumVal(parts[4])>>
                         /\ colors[k] = <<NumVal(parts[5]), NumVal(parts[6]), NumVal(parts[7])>>

\* a returned parse of a file with two well-formed lines and a 3-token line
C8_Witness ==
    /\ p_kind = "points" /\ p_pc = "done"
    /\ \E a, b, c \in 1..Len(p_lines) :
          p_lines[a] = L_Pt1 /\ p_lines[b] = L_PtShort /\ p_lines[c] = L_Pt2
    /\ Len(points) = 2

\* C9 (as claimed): after a content line the cursor moves two lines exactly
\* when the content line had at least 10 tokens and the next line exists and
\* is neither a comment nor blank, and one line otherwise.
C9_SkipOnlyAfterPose ==
    [][(p_kind = "images" /\ p_pc = "run" /\ p_pc' = "run" /\ p_i <= Len(p_lines)
          /\ ~SkippableLine(p_lines[p_i])) =>
            LET skips == /\ Len(split(p_lines[p_i])) >= 10
                         /\ p_i + 1 <= Len(p_lines)
                         /\ ~SkippableLine(p_lines[p_i + 1])
            IN  p_i' = IF skips THEN p_i + 2 ELSE p_i + 1]_vars

\* C9 (amended): after every content line, whatever its token count, the
\* cursor moves two lines exactly when a next line exists and its first
\* character is not '#' (a blank line or an indented comment is discarded
\* too), and one line otherwise; a comment or blank line moves it by one.
C9_SkipAfterEveryContentLine ==
    [][(p_kind = "images" /\ p_pc = "run" /\ p_pc' = "run" /\ p_i <= Len(p_lines)) =>
            LET skips == /\ ~SkippableLine(p_lines[p_i])
                         /\ p_i + 1 <= Len(p_lines)
                         /\ (p_lines[p_i + 1] = <<>> \/ p_lines[p_i + 1][1] # "#")
            IN  p_i' = IF skips THEN p_i + 2 ELSE p_i + 1]_vars

\* a 3-token content line was read and the pose line after it was discarded
C9_Witness ==
    /\ p_kind = "images"
    /\ Len(p_lines) >= 2
    /\ p_lines[1] = L_Obs /\ p_lines[2] = L_PoseA
    /\ p_i = 3
    /\ images = <<>>

\* C10: when the loop reads a valid pose line that is directly followed by
\* another valid pose line, it appends the record of the first only, does not
\* raise, and moves the cursor past the second.
C10_ConsecutivePoseDropped ==
    [][(p_kind = "images" /\ p_pc = "run" /\ p_i + 1 <= Len(p_lines)
          /\ ValidPose(p_lines[p_i]) /\ ValidPose(p_lines[p_i + 1])) =>
            /\ p_pc' = "run"
            /\ p_i' = p_i + 2
            /\ Len(images') = Len(images) + 1
            /\ SubSeq(images', 1, Len(images)) = images
            /\ images'[Len(images')].name = split(p_lines[p_i])[10]
            /\ images'[Len(images')].id = NumVal(split(p_lines[p_i])[1])]_vars

\* the file of two consecutive pose lines a and b returned the record of a alone
C10_Witness ==
    /\ p_kind = "images" /\ p_pc = "done"
    /\ p_lines = <<L_PoseA, L_PoseB>>
    /\ Len(images) = 1
    /\ images[1].name = <<"a">>

=============================================================================
